---- MODULE Spec2Model ----
(***************************************************************************)
(* Model of qgis-plugin-package-ci: the changelog parser                   *)
(* (qgis_plugin_package_ci/changelog.py, qgispluginci/changelog.py), the   *)
(* release, package and changelog commands (__main__.py, main.py,          *)
(* release.py, assets.py, upload.py), create_archive (package.py) and the  *)
(* configuration (parameters.py).                                          *)
(*                                                                         *)
(* Text is modelled as a sequence of one-character strings, so that the    *)
(* regular expression, str.strip() and the f-strings are computed          *)
(* character by character as the code computes them.                       *)
(***************************************************************************)
EXTENDS Integers, Sequences, FiniteSets, TLC

(***************************************************************************)
(* Character classes of CHANGELOG_REGEXP.                                  *)
(***************************************************************************)
Digit == {"0", "1", "2", "3", "4", "5", "6", "7", "8", "9"}

NonZeroDigit == Digit \ {"0"}

Letter ==
    {"a", "b", "c", "d", "e", "f", "g", "h", "i", "j", "k", "l", "m",
     "n", "o", "p", "q", "r", "s", "t", "u", "v", "w", "x", "y", "z",
     "A", "B", "C", "D", "E", "F", "G", "H", "I", "J", "K", "L", "M",
     "N", "O", "P", "Q", "R", "S", "T", "U", "V", "W", "X", "Y", "Z"}

\* \s
Space == {" ", "\t", "\n", "\r"}

\* [0-9a-zA-Z-]
IdentChar == Digit \cup Letter \cup {"-"}

\* [\d\-/]
DateChar == Digit \cup {"-", "/"}

\* the {10} of the date group
DateLen == 10

IsAt(s, i, c) == i >= 1 /\ i <= Len(s) /\ s[i] = c

InClass(s, i, C) == i >= 1 /\ i <= Len(s) /\ s[i] \in C

\* The least element of a non-empty set of positions
Least(S) == CHOOSE k \in S : \A j \in S : k <= j

\* A greedy C*: the position after the longest run of characters of C at i.
SkipClass(s, i, C) ==
    IF i > Len(s) THEN i
    ELSE Least({k \in i..(Len(s) + 1) : ~InClass(s, k, C)})

\* s[a..b-1], empty when that is no part of s
Slice(s, a, b) ==
    IF a >= 1 /\ b > a /\ b - 1 <= Len(s) THEN SubSeq(s, a, b - 1) ELSE << >>

(***************************************************************************)
(* The pieces of CHANGELOG_REGEXP.  A position 0 stands for "no match".    *)
(***************************************************************************)

\* (0|[1-9]\d*): what follows is always "\." or a non-digit, so the greedy
\* \d* never gives a digit back.
NumericEnd(s, i) ==
    IF IsAt(s, i, "0") THEN i + 1
    ELSE IF InClass(s, i, NonZeroDigit) THEN SkipClass(s, i + 1, Digit)
    ELSE 0

\* (v?0|[1-9]\d*): the "v" belongs to the first alternative only.
MajorEnd(s, i) ==
    IF IsAt(s, i, "v") /\ IsAt(s, i + 1, "0") THEN i + 2
    ELSE IF IsAt(s, i, "v") THEN 0
    ELSE NumericEnd(s, i)

\* One dot-separated identifier s[a..b-1]:
\* strict (prerelease): 0|[1-9]\d*|\d*[a-zA-Z-][0-9a-zA-Z-]*
\* otherwise (build):   [0-9a-zA-Z-]+
IdentOk(s, a, b, strict) ==
    /\ b > a
    /\ \/ ~strict
       \/ \E k \in a..(b - 1) : s[k] \notin Digit
       \/ b = a + 1
       \/ s[a] # "0"

\* ident(?:\.ident)* at i.  What follows the group in the pattern ("+", "]"
\* or \s) is neither an identifier character nor ".", so a match that goes
\* on must have taken the whole run of identifiers.
RECURSIVE DotIdentsEnd(_, _, _)
DotIdentsEnd(s, i, strict) ==
    LET e == SkipClass(s, i, IdentChar)
    IN  IF ~IdentOk(s, i, e, strict) THEN 0
        ELSE IF IsAt(s, e, ".")
             THEN DotIdentsEnd(s, e + 1, strict)
             ELSE e

\* (?:-(prerelease))? at p: the position after the group, p when the
\* group takes nothing
PreEnd(s, p) ==
    IF IsAt(s, p, "-") /\ DotIdentsEnd(s, p + 1, TRUE) > 0
    THEN DotIdentsEnd(s, p + 1, TRUE)
    ELSE p

\* (?:\+(build))? at p
BuildEnd(s, p) ==
    IF IsAt(s, p, "+") /\ DotIdentsEnd(s, p + 1, FALSE) > 0
    THEN DotIdentsEnd(s, p + 1, FALSE)
    ELSE p

\* The tail of the header at p, with the prerelease ending at p1, the
\* build at p2, the "]" at p3 and the date starting at p4.
TailResult(s, p, p1, p2, p3, p4) ==
    [ok    |-> /\ InClass(s, p3, Space)
               /\ IsAt(s, p3 + 1, "-")
               /\ \A k \in 0..(DateLen - 1) : InClass(s, p4 + k, DateChar),
     pre   |-> Slice(s, p + 1, p1),
     build |-> Slice(s, p1 + 1, p2),
     date  |-> Slice(s, p4, p4 + DateLen),
     end   |-> p4 + DateLen]

\* \s-\s* after the "]" that end at p3
TailDate(s, p, p1, p2, p3) ==
    TailResult(s, p, p1, p2, p3, SkipClass(s, p3 + 2, Space))

\* \]* after the build
TailSep(s, p, p1, p2) == TailDate(s, p, p1, p2, SkipClass(s, p2, {"]"}))

\* (?:-(prerelease))?(?:\+(build))?\]*\s-\s*([\d\-/]{10}) at p
TailBuild(s, p, p1) == TailSep(s, p, p1, BuildEnd(s, p1))

HeaderTail(s, p) == TailBuild(s, p, PreEnd(s, p))

\* (\(.*\))? at p: with DOTALL the greedy .* runs to the end of the text
\* and comes back to the last ")" after which the rest of the header
\* matches.  p when the group takes nothing.
UrlEnd(s, p) ==
    IF ~IsAt(s, p, "(") THEN p
    ELSE LET J == {j \in (p + 1)..Len(s) : s[j] = ")" /\ HeaderTail(s, j + 1).ok}
         IN  IF J = {} THEN p
             ELSE (CHOOSE j \in J : \A k \in J : k <= j) + 1

\* (.*?)(?=##|\Z) at e: the first position at which "##" or the end follows
BodyEnd(s, e) ==
    IF e > Len(s) THEN e
    ELSE Least({k \in e..(Len(s) + 1) :
                  k > Len(s) \/ (IsAt(s, k, "#") /\ IsAt(s, k + 1, "#"))})

NoMatch == [ok |-> FALSE, groups |-> << >>, end |-> 0]

\* The match once the header has matched up to the date: the body and the
\* eight groups, as re.findall gives them (a group that took part in no
\* match is the empty string).
MatchBody(s, vmp, url, t, bodyEnd) ==
    [ok     |-> TRUE,
     groups |-> vmp \o << url, t.pre, t.build, t.date,
                          Slice(s, t.end, bodyEnd) >>,
     end    |-> bodyEnd]

MatchTail(s, vmp, url, t) ==
    IF t.ok THEN MatchBody(s, vmp, url, t, BodyEnd(s, t.end)) ELSE NoMatch

\* (\(.*\))? at q
MatchUrl(s, vmp, q, urlEnd) ==
    MatchTail(s, vmp, Slice(s, q, urlEnd), HeaderTail(s, urlEnd))

\* \]? after the patch, which ends at pat
MatchPatch(s, a, maj, min, pat) ==
    IF pat = 0 THEN NoMatch
    ELSE MatchUrl(s,
                  << Slice(s, a, maj), Slice(s, maj + 1, min),
                     Slice(s, min + 1, pat) >>,
                  IF IsAt(s, pat, "]") THEN pat + 1 ELSE pat,
                  UrlEnd(s, IF IsAt(s, pat, "]") THEN pat + 1 ELSE pat))

\* \.(0|[1-9]\d*) after the minor, which ends at min
MatchMinor(s, a, maj, min) ==
    IF min > 0 /\ IsAt(s, min, ".")
    THEN MatchPatch(s, a, maj, min, NumericEnd(s, min + 1))
    ELSE NoMatch

\* \.(0|[1-9]\d*) after the major, which ends at maj
MatchMajor(s, a, maj) ==
    IF maj > 0 /\ IsAt(s, maj, ".")
    THEN MatchMinor(s, a, maj, NumericEnd(s, maj + 1))
    ELSE NoMatch

\* (v?0|[1-9]\d*) at a
MatchVersion(s, a) == MatchMajor(s, a, MajorEnd(s, a))

\* One attempt of CHANGELOG_REGEXP at position i of s: (?<=##)\s*\[* and
\* the rest
CHANGELOG_REGEXP(s, i) ==
    IF IsAt(s, i - 2, "#") /\ IsAt(s, i - 1, "#")
    THEN MatchVersion(s, SkipClass(s, SkipClass(s, i, Space), {"["}))
    ELSE NoMatch

\* re.findall from pos on, m being the attempt at pos: the matches from
\* left to right, each search starting where the previous match ended.
RECURSIVE findall_from(_, _, _)
findall_from(s, pos, m) ==
    IF pos > Len(s) + 1 THEN << >>
    ELSE IF m.ok
         THEN << m.groups >> \o findall_from(s, m.end, CHANGELOG_REGEXP(s, m.end))
         ELSE findall_from(s, pos + 1, CHANGELOG_REGEXP(s, pos + 1))

\* re.findall(CHANGELOG_REGEXP, s)
findall(s) == findall_from(s, 1, CHANGELOG_REGEXP(s, 1))

(***************************************************************************)
(* VersionNote: a view over one tuple of eight groups                      *)
(* (major, minor, patch, url, prerelease, separator, date, text_raw).      *)
(***************************************************************************)

\* Python's None, and a value that is not None
None == [kind |-> "None", val |-> << >>]

Some(x) == [kind |-> "value", val |-> x]

\* An exception that leaves the function
Raise(exc) == [kind |-> "raise", val |-> exc]

\* str.strip(): leading and trailing whitespace removed
strip(s) ==
    LET keep == {k \in 1..Len(s) : s[k] \notin Space}
    IN  IF keep = {} THEN << >>
        ELSE SubSeq(s, Least(keep), CHOOSE k \in keep : \A j \in keep : j <= k)

\* VersionNote.text: self.text_raw.strip() if self.text_raw else None
text(ver) == IF ver[8] # << >> THEN Some(strip(ver[8])) ELSE None

\* VersionNote.is_prerelease: bool(self.prerelease)
is_prerelease(ver) == ver[5] # << >>

\* VersionNote.version
version(ver) ==
    IF ver[5] # << >>
    THEN ver[1] \o <<".">> \o ver[2] \o <<".">> \o ver[3] \o <<"-">> \o ver[5]
    ELSE ver[1] \o <<".">> \o ver[2] \o <<".">> \o ver[3]

(***************************************************************************)
(* ChangeLog: the sequence of tuples, in document order.                   *)
(***************************************************************************)

\* ChangeLog.parse: re.findall over the content of the file
parse(text_of_file) == findall(text_of_file)

\* ChangeLog.empty
empty(versions) == Len(versions) = 0

\* self._versions[i], raising IndexError outside the sequence
GetItem(versions, i) ==
    IF i + 1 \in DOMAIN versions THEN Some(versions[i + 1])
    ELSE Raise("IndexError")

latest_tag == <<"l", "a", "t", "e", "s", "t">>

\* find returning the last entry of that version instead of the first
find_last_match(versions, tag) ==
    IF empty(versions) THEN None
    ELSE IF tag = latest_tag THEN GetItem(versions, 0)
    ELSE LET hits == {k \in DOMAIN versions : version(versions[k]) = tag}
         IN  IF hits = {} THEN None
             ELSE Some(versions[CHOOSE k \in hits : \A j \in hits : j <= k])

\* find taking "latest" as the last entry of the document
find_latest_is_last(versions, tag) ==
    IF empty(versions) THEN None
    ELSE IF tag = latest_tag THEN GetItem(versions, Len(versions) - 1)
    ELSE LET hits == {k \in DOMAIN versions : version(versions[k]) = tag}
         IN  IF hits = {} THEN None ELSE Some(versions[Least(hits)])

\* find without its test of self.empty
find_unguarded(versions, tag) ==
    IF tag = latest_tag THEN GetItem(versions, 0)
    ELSE LET hits == {k \in DOMAIN versions : version(versions[k]) = tag}
         IN  IF hits = {} THEN None ELSE Some(versions[Least(hits)])

\* ChangeLog.find
find(versions, tag) ==
    IF empty(versions) THEN None
    ELSE IF tag = latest_tag THEN GetItem(versions, 0)
    ELSE LET hits == {k \in DOMAIN versions : version(versions[k]) = tag}
         IN  IF hits = {} THEN None ELSE Some(versions[Least(hits)])

\* ChangeLog.latest
latest(versions) == find(versions, latest_tag)

VersionLabel == <<"V", "e", "r", "s", "i", "o", "n", " ">>

\* The loop of format_last_items from the k-th entry on: so_far is k - 1
\* when the entry is reached and k when the loop tests so_far >= count.
RECURSIVE format_loop(_, _, _, _)
format_loop(versions, count, k, output) ==
    IF k > Len(versions) THEN output
    ELSE LET t    == text(versions[k])
             out1 == output \o VersionLabel \o version(versions[k])
                            \o <<":", "\n">>
                            \o (IF t.kind = "value" /\ t.val # << >>
                                THEN t.val ELSE << >>)
                            \o <<"\n", "\n">>
         IN  IF k >= count THEN out1
             ELSE format_loop(versions, count, k + 1, out1)

\* ChangeLog.format_last_items
format_last_items(versions, count) ==
    IF empty(versions) THEN << >>
    ELSE format_loop(versions, count, 1, <<"\n">>)

\* ChangelogParser._parse: () without a changelog path, else re.findall of
\* the same pattern, with the same flags, over the content of the file
parser_parse(cp, text_of_file) ==
    IF cp.kind # "value" THEN << >> ELSE findall(text_of_file)

\* _version_note that looks for the tag after the first entry only
version_note_after_latest(changelog_content, tag) ==
    IF Len(changelog_content) = 0 THEN None
    ELSE IF tag = latest_tag THEN Some(changelog_content[1])
    ELSE LET chained == Tail(changelog_content)
             hits    == {k \in DOMAIN chained : version(chained[k]) = tag}
         IN  IF hits = {} THEN None ELSE Some(chained[Least(hits)])

\* ChangelogParser._version_note over the parsed content
\* (next(iter(content), None), then chain((latest,), content))
version_note(changelog_content, tag) ==
    IF Len(changelog_content) = 0 THEN None
    ELSE IF tag = latest_tag THEN Some(changelog_content[1])
    ELSE LET chained == <<changelog_content[1]>> \o changelog_content
             hits    == {k \in DOMAIN chained : version(chained[k]) = tag}
         IN  IF hits = {} THEN None ELSE Some(chained[Least(hits)])

(***************************************************************************)
(* Changelog documents: up to MaxLines lines drawn from a catalogue.       *)
(***************************************************************************)
MaxLines == 3

MaxCount == 3

LineNames ==
    {"h100", "h100b", "hv011", "hv123", "hbeta", "unrel", "h10", "hnodate",
     "bullet", "bdate", "sub3", "h3ver", "midline"}

\* The text of each line of the catalogue
Line(n) ==
    CASE n = "h100" ->
           \* ## 1.0.0 - 2021-01-01\n
           <<"#", "#", " ", "1", ".", "0", ".", "0", " ", "-", " ", "2", "0", "2", "1", "-", "0", "1", "-", "0", "1", "\n">>
      [] n = "h100b" ->
           \* ## 1.0.0 - 2020/12/31\n
           <<"#", "#", " ", "1", ".", "0", ".", "0", " ", "-", " ", "2", "0", "2", "0", "/", "1", "2", "/", "3", "1", "\n">>
      [] n = "hv011" ->
           \* ## v0.1.1 - 2021-01-01\n
           <<"#", "#", " ", "v", "0", ".", "1", ".", "1", " ", "-", " ", "2", "0", "2", "1", "-", "0", "1", "-", "0", "1", "\n">>
      [] n = "hv123" ->
           \* ## v1.2.3 - 2021-01-01\n
           <<"#", "#", " ", "v", "1", ".", "2", ".", "3", " ", "-", " ", "2", "0", "2", "1", "-", "0", "1", "-", "0", "1", "\n">>
      [] n = "hbeta" ->
           \* ## [10.1.0-beta1] - 2021/02/08\n
           <<"#", "#", " ", "[", "1", "0", ".", "1", ".", "0", "-", "b", "e", "t", "a", "1", "]", " ", "-", " ", "2", "0", "2", "1", "/", "0", "2", "/", "0", "8", "\n">>
      [] n = "unrel" ->
           \* ## Unreleased\n
           <<"#", "#", " ", "U", "n", "r", "e", "l", "e", "a", "s", "e", "d", "\n">>
      [] n = "h10" ->
           \* ## 1.0 - 2021-01-01\n
           <<"#", "#", " ", "1", ".", "0", " ", "-", " ", "2", "0", "2", "1", "-", "0", "1", "-", "0", "1", "\n">>
      [] n = "hnodate" ->
           \* ## 2.0.0\n
           <<"#", "#", " ", "2", ".", "0", ".", "0", "\n">>
      [] n = "bullet" ->
           \* - a\n
           <<"-", " ", "a", "\n">>
      [] n = "bdate" ->
           \* - 2021-01-01 b\n
           <<"-", " ", "2", "0", "2", "1", "-", "0", "1", "-", "0", "1", " ", "b", "\n">>
      [] n = "sub3" ->
           \* ### Fixed\n
           <<"#", "#", "#", " ", "F", "i", "x", "e", "d", "\n">>
      [] n = "h3ver" ->
           \* ### 3.0.0 - 2021-01-01\n
           <<"#", "#", "#", " ", "3", ".", "0", ".", "0", " ", "-", " ", "2", "0", "2", "1", "-", "0", "1", "-", "0", "1", "\n">>
      [] n = "bpct" ->
           \* - 50%\n
           <<"-", " ", "5", "0", "%", "\n">>
      [] n = "bpct2" ->
           \* - 5%% %(n)s\n
           <<"-", " ", "5", "%", "%", " ", "%", "(", "n", ")", "s", "\n">>
      [] n = "midline" ->
           \* see ## 4.0.0 - 2021-01-01\n
           <<"s", "e", "e", " ", "#", "#", " ", "4", ".", "0", ".", "0", " ", "-", " ", "2", "0", "2", "1", "-", "0", "1", "-", "0", "1", "\n">>

\* A "v"-prefixed header of the catalogue with its prefix taken away
Unprefixed(n) ==
    CASE n = "hv011" ->
           <<"#", "#", " ", "0", ".", "1", ".", "1", " ", "-", " ",
             "2", "0", "2", "1", "-", "0", "1", "-", "0", "1", "\n">>
      [] n = "hv123" ->
           <<"#", "#", " ", "1", ".", "2", ".", "3", " ", "-", " ",
             "2", "0", "2", "1", "-", "0", "1", "-", "0", "1", "\n">>
      [] OTHER -> Line(n)

RECURSIVE Flatten(_)
Flatten(d) == IF d = << >> THEN << >> ELSE Line(Head(d)) \o Flatten(Tail(d))

RECURSIVE FlattenUnprefixed(_)
FlattenUnprefixed(d) ==
    IF d = << >> THEN << >>
    ELSE Unprefixed(Head(d)) \o FlattenUnprefixed(Tail(d))

Docs == UNION {[1..n -> LineNames] : n \in 0..MaxLines}

\* The tags asked of find
Tags ==
    {latest_tag,
     <<"1", ".", "0", ".", "0">>,
     <<"1", ".", "0">>,
     <<"0", ".", "1", ".", "1">>,
     <<"v", "0", ".", "1", ".", "1">>,
     <<"1", "0", ".", "1", ".", "0", "-", "b", "e", "t", "a", "1">>,
     <<"0", ".", "0", ".", "0">>}

Counts == (0 - 1)..MaxCount

VARIABLES
    doc,        \* the lines the changelog file was written from
    content,    \* the text of the changelog file
    versions,   \* ChangeLog._versions
    pc,         \* "init": no ChangeLog yet; "ready": parsed; "done": queried
    op,         \* the last operation
    tag,        \* the argument of the last operation, when it is a tag
    count,      \* the argument of the last operation, when it is a count
    ret,        \* what the last operation returned
    args,               \* the arguments of the release command
    changelog_exists,   \* parameters.changelog_path.exists()
    release_version,    \* release_version of make_release, then of release
    tag_ref,            \* tag_ref of release
    files,              \* what the command has written in parameters.rootdir
    xml,                \* what create_plugin_repository_xml returned
    gh_calls,           \* the calls of upload_github_asset, in order
    rpc_calls,          \* the calls of server.plugin.upload
    exc,                \* the exception in flight
    exit_status,        \* the exit status of the command, -1 while it runs
    stdout,             \* what click.echo wrote on the output stream
    stderr,             \* what click.echo(err=True) and the interpreter
                        \* wrote on the error stream (the log is left out)
    config,             \* the configuration file of the working directory
    parameters,         \* the Parameters load_parameters returned
    plugins_xml,        \* what create_plugin_repository_xml wrote in
                        \* plugins.xml
    fs,                 \* what each changelog path of each folder is
    call,               \* the arguments of the last call of has_changelog
    CHANGELOG_FILEPATH, \* the class attribute of ChangelogParser
    changelog_path,     \* self.changelog_path of the ChangelogParser built
    source_changelog,   \* the changelog option of the plugin's metadata.txt
    metadata,           \* the metadata.txt written into the archive
    plugin_md,          \* the PluginMetadata read from metadata.txt
    project_md,         \* the ProjectMetadata read from pyproject.toml
    candidates          \* the candidate configuration files of the root
                        \* directory

\* The variables of a ChangeLog query
queryvars == << op, tag, count, ret >>

\* The variables of ChangelogParser.has_changelog
parservars == << fs, call, CHANGELOG_FILEPATH, changelog_path >>

\* The variables of create_archive
pkgvars == << source_changelog, metadata >>

\* The variables of update_plugin_metadata
mdvars == << plugin_md, project_md >>

\* The variables of find_config_file
cfgvars == << candidates >>

\* The variables of the release command
relvars ==
    << args, changelog_exists, release_version, tag_ref, files, xml,
       gh_calls, rpc_calls, exc, exit_status, stdout, stderr, config,
       parameters, plugins_xml >>

vars ==
    << doc, content, versions, pc, queryvars, relvars, parservars, pkgvars,
       mdvars, cfgvars >>

\* An attribute that was never assigned
Unset == [kind |-> "unset", val |-> << >>]

\* No call of has_changelog
NoCall ==
    [parent_folder  |-> [type |-> "Path", path |-> "."],
     changelog_path |-> [absolute |-> FALSE, folder |-> "", name |-> ""]]

\* No metadata.txt written
NoMetadata == [written |-> FALSE, changelog |-> None]

\* No ChangelogParser in use, and no metadata.txt looked at
NoParser ==
    /\ fs = << >>
    /\ call = NoCall
    /\ CHANGELOG_FILEPATH = Unset
    /\ changelog_path = Unset
    /\ source_changelog = None
    /\ metadata = NoMetadata
    /\ plugin_md = << >>
    /\ project_md = << >>
    /\ candidates = << >>

\* A working directory without a configuration file
NoConfigFile ==
    [file |-> "", keys |-> {}, changelog_file |-> "",
     changelog_max_entries |-> 0, rootdir |-> ""]

\* No Parameters yet
NotLoaded ==
    [loaded |-> FALSE, changelog_file |-> "", changelog_max_entries |-> 0,
     rootdir |-> ""]

\* No plugins.xml written
NoXml ==
    [written |-> FALSE, RELEASE_TAG |-> << >>,
     DOWNLOAD_URL |-> [github |-> FALSE, url |-> << >>, tag |-> << >>,
                       name |-> << >>]]

\* The arguments when no release command runs
NoArgs ==
    [command            |-> "none",
     release_version    |-> << >>,
     github_token       |-> None,
     create_plugin_repo |-> FALSE,
     repository_url     |-> None,
     git_tag            |-> None,
     osgeo_username     |-> None,
     osgeo_password     |-> None,
     dry_run            |-> FALSE]

\* No release command runs
NoCommand ==
    /\ args = NoArgs
    /\ changelog_exists = TRUE
    /\ release_version = None
    /\ tag_ref = None
    /\ files = {}
    /\ xml = ""
    /\ gh_calls = << >>
    /\ rpc_calls = 0
    /\ exc = ""
    /\ exit_status = 0 - 1
    /\ stdout = << >>
    /\ stderr = << >>
    /\ config = NoConfigFile
    /\ parameters = NotLoaded
    /\ plugins_xml = NoXml
    /\ NoParser

Init ==
    /\ doc \in Docs
    /\ content = Flatten(doc)
    /\ versions = << >>
    /\ pc = "init"
    /\ op = "none"
    /\ tag = << >>
    /\ count = 0
    /\ ret = None
    /\ NoCommand

\* changelog = ChangeLog.parse(path)
Parse ==
    /\ pc = "init"
    /\ versions' = parse(content)
    /\ pc' = "ready"
    /\ UNCHANGED << doc, content, op, tag, count, ret, relvars, parservars,
                    pkgvars, mdvars, cfgvars >>

\* changelog.find(tag)
Find ==
    /\ pc = "ready"
    /\ \E t \in Tags :
         /\ tag' = t
         /\ ret' = find(versions, t)
    /\ op' = "find"
    /\ pc' = "done"
    /\ count' = 0
    /\ UNCHANGED << doc, content, versions, relvars, parservars,
                    pkgvars, mdvars, cfgvars >>

\* parser._version_note(tag)
VersionNoteOf ==
    /\ pc = "ready"
    /\ \E t \in Tags :
         /\ tag' = t
         /\ ret' = version_note(versions, t)
    /\ op' = "_version_note"
    /\ pc' = "done"
    /\ count' = 0
    /\ UNCHANGED << doc, content, versions, relvars, parservars,
                    pkgvars, mdvars, cfgvars >>

\* changelog.format_last_items(count)
FormatLastItems ==
    /\ pc = "ready"
    /\ \E c \in Counts :
         /\ count' = c
         /\ ret' = Some(format_last_items(versions, c))
    /\ op' = "format_last_items"
    /\ pc' = "done"
    /\ tag' = << >>
    /\ UNCHANGED << doc, content, versions, relvars, parservars,
                    pkgvars, mdvars, cfgvars >>

\* The caller has used the result; the ChangeLog is as it was.
Return ==
    /\ pc = "done"
    /\ pc' = "ready"
    /\ op' = "none"
    /\ tag' = << >>
    /\ count' = 0
    /\ ret' = None
    /\ UNCHANGED << doc, content, versions, relvars, parservars,
                    pkgvars, mdvars, cfgvars >>

Next == Parse \/ Find \/ VersionNoteOf \/ FormatLastItems \/ Return

Spec == Init /\ [][Next]_vars

(***************************************************************************)
(* The release command: make_release, release, upload_plugin and main.     *)
(***************************************************************************)

\* bool(x) of an Optional[str]: None and "" are false
Truthy(x) == x.kind = "value" /\ Len(x.val) > 0

\* x is not None
IsNotNone(x) == x.kind # "None"

\* semver.Version.parse: major.minor.patch without leading zeros, then
\* "-" prerelease and "+" build, and nothing after them; ValueError otherwise
Version_parse(s) ==
    LET e1 == NumericEnd(s, 1)
        e2 == IF e1 > 0 /\ IsAt(s, e1, ".") THEN NumericEnd(s, e1 + 1) ELSE 0
        e3 == IF e2 > 0 /\ IsAt(s, e2, ".") THEN NumericEnd(s, e2 + 1) ELSE 0
        e4 == IF e3 > 0 THEN BuildEnd(s, PreEnd(s, e3)) ELSE 0
    IN  IF e4 = Len(s) + 1 THEN Some(s) ELSE Raise("ValueError")

\* validate_version(release_version)
validate_version(rv) ==
    IF rv = latest_tag THEN None
    ELSE IF Version_parse(rv).kind = "value" THEN Version_parse(rv)
    ELSE Raise("PluginPackageError")

\* create_plugin_repository of make_release
create_plugin_repository ==
    args.create_plugin_repo \/ IsNotNone(args.repository_url)

\* bool(changelog) of release: None is false, and so is a ChangeLog of
\* length 0 (ChangeLog.__len__)
changelog_truthy(exists, vs) == exists /\ Len(vs) > 0

\* release_version of release taken from the changelog whenever it has an
\* entry
resolve_version_from_changelog(rv, exists, vs) ==
    IF changelog_truthy(exists, vs)
    THEN IF latest(vs).kind = "value"
         THEN Version_parse(version(latest(vs).val))
         ELSE rv
    ELSE rv

\* release_version of release after lines 41-45, given the ChangeLog
resolve_version(rv, exists, vs) ==
    IF rv.kind = "None" /\ changelog_truthy(exists, vs)
    THEN IF latest(vs).kind = "value"
         THEN Version_parse(version(latest(vs).val))
         ELSE rv
    ELSE rv

\* tag_ref of release with the release version whatever the tag given
tag_ref_is_version(t, rv) == rv

\* tag_ref of release after lines 59-61: the release version when no tag
\* is given
default_tag_ref(t, rv) == IF Truthy(t) THEN t ELSE rv

\* download_url of create_plugin_repository_xml, lines 131-137, for the
\* archive {plugin_slug}.{release_version}.zip
download_url(repository_url, t, rv) ==
    IF ~Truthy(repository_url)
    THEN [github |-> TRUE, url |-> << >>, tag |-> t, name |-> rv]
    ELSE [github |-> FALSE, url |-> repository_url.val, tag |-> << >>,
          name |-> rv]

\* What the GitHub API does when upload_github_asset calls it
GithubOutcomes == {"ok", "get_repo", "get_release", "upload_asset"}

\* What the XML-RPC server does when plugin.upload is called
RpcOutcomes == {"ok", "ProtocolError", "Fault", "OSError"}

\* upload_github_asset that takes every answer of the API for a success
upload_github_asset_unchecked(outcome) == ""

\* The exception upload_github_asset leaves with: get_repo is called before
\* the try, the other calls inside it
upload_github_asset(outcome) ==
    CASE outcome = "ok" -> ""
      [] outcome = "get_repo" -> "GithubException"
      [] OTHER -> "PluginPackageError"

\* upload_plugin with the dry-run test taken away
upload_plugin_always(archive_exists, dry, outcome) ==
    IF ~archive_exists THEN [reached |-> FALSE, exc |-> "FileNotFoundError"]
    ELSE [reached |-> TRUE,
          exc |-> CASE outcome = "ok" -> ""
                    [] outcome \in {"ProtocolError", "Fault"} ->
                         "PluginPackageError"
                    [] OTHER -> outcome]

\* upload_plugin: whether server.plugin.upload is reached, and the exception
\* the function leaves with ("" for none)
upload_plugin(archive_exists, dry, outcome) ==
    IF ~archive_exists THEN [reached |-> FALSE, exc |-> "FileNotFoundError"]
    ELSE IF dry THEN [reached |-> FALSE, exc |-> ""]
    ELSE [reached |-> TRUE,
          exc |-> CASE outcome = "ok" -> ""
                    [] outcome \in {"ProtocolError", "Fault"} ->
                         "PluginPackageError"
                    [] OTHER -> outcome]

\* The test of make_release with the user name alone
has_osgeo_username(username, password) == Truthy(username)

\* osgeo_username and osgeo_password of make_release, line 144
has_osgeo_credentials(username, password) ==
    Truthy(username) /\ Truthy(password)

\* The RELEASE-VERSION arguments: latest, 1.2.3, 1.2.3-rc.1 and 1.2
ReleaseVersions ==
    {latest_tag,
     <<"1", ".", "2", ".", "3">>,
     <<"1", ".", "2", ".", "3", "-", "r", "c", ".", "1">>,
     <<"1", ".", "2">>}

\* An option that takes a string: absent, empty, or the given value
OptionValues(v) == {None, Some(<< >>), Some(v)}

\* The changelog files of the plugin a release is made of
ReleaseDocs ==
    {<< >>, <<"unrel">>, <<"h100", "bullet">>, <<"hbeta", "h100">>,
     <<"hv011">>}

ReleaseArgs ==
    [command            : {"release"},
     release_version    : ReleaseVersions,
     github_token       : OptionValues(<<"f", "o", "o">>),
     create_plugin_repo : BOOLEAN,
     repository_url     : OptionValues(<<"h", ":", "/", "/", "r", "/">>),
     git_tag            : OptionValues(<<"v", "1">>),
     osgeo_username     : OptionValues(<<"b", "a", "r">>),
     osgeo_password     : {None, Some(<<"b", "a", "z">>)},
     dry_run            : BOOLEAN]

\* The arguments of the package command, which has the RELEASE-VERSION
\* argument and the option --plugin-repo-url only: what make_package passes
\* to release, the other parameters of release at their defaults
PackageArgs ==
    [command            : {"package"},
     release_version    : ReleaseVersions,
     github_token       : {None},
     create_plugin_repo : {FALSE},
     repository_url     : OptionValues(<<"h", ":", "/", "/", "r", "/">>),
     git_tag            : {None},
     osgeo_username     : {None},
     osgeo_password     : {None},
     dry_run            : {FALSE}]

\* The fields of Parameters without a default, rootdir aside (lines 127-146)
RequiredKeys == {"plugin_source", "github_organization_slug", "project_slug"}

\* The fields of Parameters (extra="forbid"); load_parameters sets rootdir
ParametersKeys ==
    RequiredKeys \cup
        {"rootdir", "changelog_file", "changelog_max_entries", "create_date",
         "upload_url"}

\* Parameters.model_validate(config): pydantic's ValidationError for a
\* missing field, an unknown key, or a changelog_max_entries that is not
\* positive; the defaults of lines 147-162 for the keys not given
model_validate(keys, cfg) ==
    IF /\ RequiredKeys \subseteq keys
       /\ keys \subseteq ParametersKeys
       /\ "changelog_max_entries" \in keys => cfg.changelog_max_entries > 0
    THEN Some([loaded |-> TRUE,
               changelog_file |->
                   IF "changelog_file" \in keys THEN cfg.changelog_file
                   ELSE "CHANGELOG.md",
               changelog_max_entries |->
                   IF "changelog_max_entries" \in keys
                   THEN cfg.changelog_max_entries
                   ELSE 3,
               rootdir |-> cfg.rootdir])
    ELSE Raise("ValidationError")

\* Path.cwd(), the rootdir of load_parameters when none is passed
Cwd == "/work"

\* load_parameters(): the package-ci table of the configuration file found
\* in the working directory, {} without one, then config.update(rootdir)
load_parameters(cfg) ==
    model_validate((IF cfg.file = "" THEN {} ELSE cfg.keys) \cup {"rootdir"},
                   [cfg EXCEPT !.rootdir = Cwd])

\* The package-ci tables of a configuration file
ConfigKeySets ==
    {{}, {"plugin_source"}, RequiredKeys,
     RequiredKeys \cup {"changelog_file"},
     RequiredKeys \cup {"changelog_max_entries"},
     RequiredKeys \cup {"changelog-file"}}

\* The working directories: without a configuration file, or with one
ConfigFiles ==
    {NoConfigFile} \cup
    [file : {"pyproject.toml"}, keys : ConfigKeySets,
     changelog_file : {"CHANGES.md"}, changelog_max_entries : 0..2,
     rootdir : {""}]

\* The working directories of a release: a complete configuration file,
\* or none
ReleaseConfigs ==
    {NoConfigFile,
     [file |-> "pyproject.toml", keys |-> RequiredKeys,
      changelog_file |-> "", changelog_max_entries |-> 0, rootdir |-> ""]}

InitRelease ==
    /\ args \in ReleaseArgs \cup PackageArgs
    /\ config \in ReleaseConfigs
    /\ parameters = NotLoaded
    /\ plugins_xml = NoXml
    /\ NoParser
    /\ changelog_exists \in BOOLEAN
    /\ doc \in (IF changelog_exists THEN ReleaseDocs ELSE {<< >>})
    /\ content = Flatten(doc)
    /\ versions = << >>
    /\ pc = "cli"
    /\ op = "none"
    /\ tag = << >>
    /\ count = 0
    /\ ret = None
    /\ release_version = None
    /\ tag_ref = None
    /\ files = {}
    /\ xml = ""
    /\ gh_calls = << >>
    /\ rpc_calls = 0
    /\ exc = ""
    /\ exit_status = 0 - 1
    /\ stdout = << >>
    /\ stderr = << >>

\* What the release command leaves alone: the changelog file and the
\* ChangeLog queries
fixed ==
    << doc, content, queryvars, args, changelog_exists, config, parservars,
       pkgvars, mdvars, cfgvars >>

\* make_release, and make_package, up to the call of release:
\* load_parameters(), then validate_version(release_version)
MakeRelease ==
    /\ pc = "cli"
    /\ IF load_parameters(config).kind = "raise"
       THEN /\ exc' = load_parameters(config).val
            /\ pc' = "raised"
            /\ UNCHANGED << release_version, parameters >>
       ELSE IF validate_version(args.release_version).kind = "raise"
       THEN /\ exc' = validate_version(args.release_version).val
            /\ pc' = "raised"
            /\ parameters' = load_parameters(config).val
            /\ UNCHANGED release_version
       ELSE /\ release_version' = validate_version(args.release_version)
            /\ pc' = "release"
            /\ parameters' = load_parameters(config).val
            /\ UNCHANGED exc
    /\ UNCHANGED << stdout, stderr, plugins_xml >>
    /\ UNCHANGED << fixed, versions, tag_ref, files, xml, gh_calls,
                    rpc_calls, exit_status >>

\* release, lines 30-48: read the changelog and settle the version
ResolveVersion ==
    /\ pc = "release"
    /\ versions' = IF changelog_exists THEN parse(content) ELSE << >>
    /\ IF resolve_version(release_version, changelog_exists, versions').kind
              = "raise"
       THEN /\ exc' = "ValueError"
            /\ pc' = "raised"
            /\ UNCHANGED release_version
       ELSE IF resolve_version(release_version, changelog_exists,
                               versions').kind = "None"
       THEN /\ exc' = "VersionNotFoundError"
            /\ pc' = "raised"
            /\ UNCHANGED release_version
       ELSE /\ release_version' =
                   resolve_version(release_version, changelog_exists,
                                   versions')
            /\ pc' = "create_archive"
            /\ UNCHANGED exc
    /\ UNCHANGED << stdout, stderr, parameters, plugins_xml >>
    /\ UNCHANGED << fixed, tag_ref, files, xml, gh_calls, rpc_calls,
                    exit_status >>

\* release, lines 50-61: create_archive, then the default of tag_ref
CreateArchive ==
    /\ pc = "create_archive"
    /\ files' = files \cup {"archive"}
    /\ tag_ref' = default_tag_ref(args.git_tag, release_version)
    /\ pc' = "create_xml"
    /\ UNCHANGED << stdout, stderr, parameters, plugins_xml >>
    /\ UNCHANGED << fixed, versions, release_version, xml, gh_calls,
                    rpc_calls, exc, exit_status >>

\* release, lines 66-77: create_plugin_repository_xml writes plugins.xml and
\* returns the path of the template
CreateXml ==
    /\ pc = "create_xml"
    /\ IF create_plugin_repository
       THEN /\ files' = files \cup {"plugins.xml"}
            /\ plugins_xml' =
                   [written      |-> TRUE,
                    RELEASE_TAG  |-> tag_ref.val,
                    DOWNLOAD_URL |-> download_url(args.repository_url,
                                                  tag_ref.val,
                                                  release_version.val)]
            /\ xml' = "plugins.xml.template"
            /\ pc' = "upload_xml"
       ELSE /\ pc' = "upload_archive"
            /\ UNCHANGED << files, xml, plugins_xml >>
    /\ UNCHANGED << stdout, stderr, parameters >>
    /\ UNCHANGED << fixed, versions, release_version, tag_ref, gh_calls,
                    rpc_calls, exc, exit_status >>

UploadXml ==
    /\ pc = "upload_xml"
    /\ IF IsNotNone(args.github_token) /\ ~args.dry_run
       THEN \E outcome \in GithubOutcomes :
              /\ gh_calls' = Append(gh_calls,
                                    [asset_path |-> xml,
                                     tag_ref    |-> tag_ref.val,
                                     asset_name |-> "plugins.xml",
                                     outcome    |-> outcome])
              /\ exc' = upload_github_asset(outcome)
              /\ pc' = IF upload_github_asset(outcome) = ""
                       THEN "upload_archive" ELSE "raised"
       ELSE /\ pc' = "upload_archive"
            /\ UNCHANGED << gh_calls, exc >>
    /\ UNCHANGED << stdout, stderr, parameters, plugins_xml >>
    /\ UNCHANGED << fixed, versions, release_version, tag_ref, files, xml,
                    rpc_calls, exit_status >>

\* release, lines 97-109: push the archive to the GitHub release
UploadArchive ==
    /\ pc = "upload_archive"
    /\ IF IsNotNone(args.github_token) /\ ~args.dry_run
       THEN \E outcome \in GithubOutcomes :
              /\ gh_calls' = Append(gh_calls,
                                    [asset_path |-> "archive",
                                     tag_ref    |-> tag_ref.val,
                                     asset_name |-> "",
                                     outcome    |-> outcome])
              /\ exc' = upload_github_asset(outcome)
              /\ pc' = IF upload_github_asset(outcome) = ""
                       THEN "echo" ELSE "raised"
       ELSE /\ pc' = "echo"
            /\ UNCHANGED << gh_calls, exc >>
    /\ UNCHANGED << stdout, stderr, parameters, plugins_xml >>
    /\ UNCHANGED << fixed, versions, release_version, tag_ref, files, xml,
                    rpc_calls, exit_status >>

\* make_release, lines 137-144: report the archive, then test the
\* credentials; make_package, lines 77-82: report the archive and return
Echo ==
    /\ pc = "echo"
    /\ IF "archive" \notin files
       THEN /\ exc' = "FileNotFoundError"
            /\ pc' = "raised"
       ELSE /\ pc' = IF /\ args.command = "release"
                        /\ has_osgeo_credentials(args.osgeo_username,
                                                 args.osgeo_password)
                     THEN "upload_plugin" ELSE "returned"
            /\ UNCHANGED exc
    /\ stdout' = IF "archive" \in files
                 THEN Append(stdout, "Plugin archive created")
                 ELSE stdout
    /\ UNCHANGED << stderr, parameters, plugins_xml >>
    /\ UNCHANGED << fixed, versions, release_version, tag_ref, files, xml,
                    gh_calls, rpc_calls, exit_status >>

\* make_release, lines 145-151: upload_plugin
UploadPlugin ==
    /\ pc = "upload_plugin"
    /\ \E outcome \in RpcOutcomes :
         /\ rpc_calls' =
              IF upload_plugin("archive" \in files, args.dry_run,
                               outcome).reached
              THEN rpc_calls + 1 ELSE rpc_calls
         /\ exc' = upload_plugin("archive" \in files, args.dry_run,
                                 outcome).exc
         /\ pc' = IF upload_plugin("archive" \in files, args.dry_run,
                                   outcome).exc = ""
                  THEN "returned" ELSE "raised"
    /\ UNCHANGED << stdout, stderr, parameters, plugins_xml >>
    /\ UNCHANGED << fixed, versions, release_version, tag_ref, files, xml,
                    gh_calls, exit_status >>

\* main that takes NoChangeLog for a normal end
main_silent(e) ==
    CASE e = "" -> [status |-> 0, err |-> << >>]
      [] e = "NoChangeLog" -> [status |-> 0, err |-> << >>]
      [] e = "VersionNotFoundError" ->
           [status |-> 1, err |-> <<"ERROR: The vers">>]
      [] e = "PluginPackageError" -> [status |-> 1, err |-> <<"ERROR:">>]
      [] OTHER -> [status |-> 1, err |-> <<"Traceback">>]

\* main with the exception e in flight ("" for none): the exit status, and
\* what goes on the error stream.  NoChangeLog ends in a silent sys.exit(1),
\* VersionNotFoundError and PluginPackageError in a message and
\* sys.exit(1); any other exception ends the interpreter with a traceback
\* and status 1; a return ends it with status 0.
main(e) ==
    CASE e = "" -> [status |-> 0, err |-> << >>]
      [] e = "NoChangeLog" -> [status |-> 1, err |-> << >>]
      [] e = "VersionNotFoundError" ->
           [status |-> 1, err |-> <<"ERROR: The vers">>]
      [] e = "PluginPackageError" -> [status |-> 1, err |-> <<"ERROR:">>]
      [] OTHER -> [status |-> 1, err |-> <<"Traceback">>]

\* main, once the release command has returned or raised
Exit ==
    /\ pc \in {"returned", "raised"}
    /\ exit_status' = main(exc).status
    /\ stderr' = stderr \o main(exc).err
    /\ pc' = "exit"
    /\ UNCHANGED << stdout, parameters, plugins_xml >>
    /\ UNCHANGED << fixed, versions, release_version, tag_ref, files, xml,
                    gh_calls, rpc_calls, exc >>

NextRelease ==
    \/ MakeRelease
    \/ ResolveVersion
    \/ CreateArchive
    \/ CreateXml
    \/ UploadXml
    \/ UploadArchive
    \/ Echo
    \/ UploadPlugin
    \/ Exit

SpecRelease == InitRelease /\ [][NextRelease]_vars

(***************************************************************************)
(* The changelog command: make_changelog and main.                         *)
(***************************************************************************)

\* The changelog files of the changelog command: up to two lines
CommandDocs == {d \in Docs : Len(d) <= 2}

InitChangelog ==
    /\ config \in ConfigFiles
    /\ changelog_exists \in BOOLEAN
    /\ doc \in (IF changelog_exists THEN CommandDocs ELSE {<< >>})
    /\ content = Flatten(doc)
    /\ tag \in Tags
    /\ versions = << >>
    /\ pc = "changelog"
    /\ op = "none"
    /\ count = 0
    /\ ret = None
    /\ args = NoArgs
    /\ parameters = NotLoaded
    /\ plugins_xml = NoXml
    /\ NoParser
    /\ release_version = None
    /\ tag_ref = None
    /\ files = {}
    /\ xml = ""
    /\ gh_calls = << >>
    /\ rpc_calls = 0
    /\ exc = ""
    /\ exit_status = 0 - 1
    /\ stdout = << >>
    /\ stderr = << >>

\* What the changelog command leaves alone
idle ==
    << doc, content, tag, count, args, changelog_exists, config,
       release_version, tag_ref, files, xml, gh_calls, rpc_calls,
       exit_status, plugins_xml, parservars, pkgvars, mdvars, cfgvars >>

\* make_changelog(release_version), with tag the RELEASE-VERSION argument
MakeChangelog ==
    /\ pc = "changelog"
    /\ IF load_parameters(config).kind = "raise"
       THEN /\ exc' = load_parameters(config).val
            /\ pc' = "changelog_raised"
            /\ UNCHANGED << parameters, versions, op, ret, stdout, stderr >>
       ELSE IF ~changelog_exists
       THEN /\ parameters' = load_parameters(config).val
            /\ stderr' = Append(stderr, "No changelog")
            /\ exc' = "NoChangeLog"
            /\ pc' = "changelog_raised"
            /\ UNCHANGED << versions, op, ret, stdout >>
       ELSE /\ parameters' = load_parameters(config).val
            /\ versions' = parse(content)
            /\ op' = "find"
            /\ ret' = find(versions', tag)
            /\ stdout' = IF ret'.kind = "value"
                         THEN Append(stdout, text(ret'.val))
                         ELSE stdout
            /\ pc' = "changelog_returned"
            /\ UNCHANGED << exc, stderr >>
    /\ UNCHANGED idle

\* main, once the changelog command has returned or raised
ExitChangelog ==
    /\ pc \in {"changelog_returned", "changelog_raised"}
    /\ exit_status' = main(exc).status
    /\ stderr' = stderr \o main(exc).err
    /\ pc' = "changelog_exit"
    /\ UNCHANGED << doc, content, versions, queryvars, args,
                    changelog_exists, config, parameters, release_version,
                    tag_ref, files, xml, gh_calls, rpc_calls, exc, stdout,
                    plugins_xml, parservars, pkgvars, mdvars, cfgvars >>

NextChangelog == MakeChangelog \/ ExitChangelog

SpecChangelog == InitChangelog /\ [][NextChangelog]_vars

(***************************************************************************)
(* ChangelogParser.has_changelog and ChangelogParser.__init__.             *)
(***************************************************************************)

\* The folders there are
Folders == {".", "fixtures"}

\* The paths given as parent folder: the folders, a file, and a path that
\* does not exist
ParentPaths == Folders \cup {"test_changelog.py", "imaginary_path"}

\* The default changelog path and an alternate one
ChangelogNames == {"CHANGELOG.md", "CHANGELOG-branch-X.md"}

\* What a path of a folder can be
PathKinds == {"missing", "file", "dir"}

\* Path.exists() and Path.is_dir() of a parent folder
exists(path) == path \in Folders \/ path = "test_changelog.py"

is_dir(path) == path \in Folders

\* parent_folder.joinpath(changelog_path): an absolute changelog path
\* replaces the parent folder
joinpath(parent, cp) ==
    IF cp.absolute THEN <<cp.folder, cp.name>> ELSE <<parent, cp.name>>

\* Path.is_file() of a changelog path
is_file(f, path) ==
    /\ path[1] \in Folders
    /\ f[path] = "file"

\* has_changelog without the test that the path is a folder
has_changelog_any_path(f, parent_folder, cp) ==
    IF ~exists(parent_folder.path) THEN Raise("SystemExit")
    ELSE IF is_file(f, joinpath(parent_folder.path, cp))
    THEN Some(joinpath(parent_folder.path, cp))
    ELSE None

\* ChangelogParser.has_changelog(parent_folder, changelog_path); a str
\* parent folder is made a Path first.  sys.exit(1) is SystemExit.
has_changelog(f, parent_folder, cp) ==
    IF ~exists(parent_folder.path) THEN Raise("SystemExit")
    ELSE IF ~is_dir(parent_folder.path) THEN Raise("SystemExit")
    ELSE IF is_file(f, joinpath(parent_folder.path, cp))
    THEN Some(joinpath(parent_folder.path, cp))
    ELSE None

\* The changelog paths given: the default, relative names, and the absolute
\* path of a file of the folder fixtures
ChangelogPaths ==
    [absolute : {FALSE}, folder : {""}, name : ChangelogNames]
    \cup [absolute : {TRUE}, folder : {"fixtures"}, name : ChangelogNames]

Calls ==
    [parent_folder  : [type : {"str", "Path"}, path : ParentPaths],
     changelog_path : ChangelogPaths]

InitParser ==
    /\ fs \in [Folders \X ChangelogNames -> PathKinds]
    /\ call = NoCall
    /\ CHANGELOG_FILEPATH = Unset
    /\ changelog_path = Unset
    /\ source_changelog = None
    /\ metadata = NoMetadata
    /\ plugin_md = << >>
    /\ project_md = << >>
    /\ pc = "parser"
    /\ op = "none"
    /\ ret = None
    /\ exc = ""
    /\ exit_status = 0 - 1
    /\ doc = << >>
    /\ content = << >>
    /\ versions = << >>
    /\ tag = << >>
    /\ count = 0
    /\ args = NoArgs
    /\ changelog_exists = TRUE
    /\ release_version = None
    /\ tag_ref = None
    /\ files = {}
    /\ xml = ""
    /\ gh_calls = << >>
    /\ rpc_calls = 0
    /\ stdout = << >>
    /\ stderr = << >>
    /\ config = NoConfigFile
    /\ candidates = << >>
    /\ parameters = NotLoaded
    /\ plugins_xml = NoXml

\* What has_changelog and __init__ leave alone
untouched ==
    << doc, content, versions, tag, count, args, changelog_exists,
       release_version, tag_ref, files, xml, gh_calls, rpc_calls, stdout,
       stderr, config, parameters, plugins_xml, fs, pkgvars, mdvars, cfgvars >>

\* ChangelogParser.has_changelog(parent_folder, changelog_path)
HasChangelog ==
    /\ pc = "parser"
    /\ \E c \in Calls :
         /\ call' = c
         /\ IF has_changelog(fs, c.parent_folder, c.changelog_path).kind
                  = "raise"
            THEN /\ exc' = "SystemExit"
                 /\ exit_status' = 1
                 /\ ret' = None
            ELSE /\ ret' = has_changelog(fs, c.parent_folder,
                                         c.changelog_path)
                 /\ UNCHANGED << exc, exit_status >>
    /\ op' = "has_changelog"
    /\ pc' = "called"
    /\ UNCHANGED << untouched, CHANGELOG_FILEPATH, changelog_path >>

\* ChangelogParser(parent_folder, changelog_path)
NewChangelogParser ==
    /\ pc = "parser"
    /\ \E c \in Calls :
         /\ call' = c
         /\ IF has_changelog(fs, c.parent_folder, c.changelog_path).kind
                  = "raise"
            THEN /\ exc' = "SystemExit"
                 /\ exit_status' = 1
                 /\ UNCHANGED changelog_path
            ELSE /\ changelog_path' = has_changelog(fs, c.parent_folder,
                                                    c.changelog_path)
                 /\ UNCHANGED << exc, exit_status >>
    /\ op' = "__init__"
    /\ ret' = None
    /\ pc' = "called"
    /\ UNCHANGED << untouched, CHANGELOG_FILEPATH >>

\* The caller goes on, after the result or after it caught SystemExit
Continue ==
    /\ pc = "called"
    /\ pc' = "parser"
    /\ op' = "none"
    /\ call' = NoCall
    /\ ret' = None
    /\ exc' = ""
    /\ exit_status' = 0 - 1
    /\ UNCHANGED << untouched, CHANGELOG_FILEPATH, changelog_path >>

NextParser == HasChangelog \/ NewChangelogParser \/ Continue

SpecParser == InitParser /\ [][NextParser]_vars

(***************************************************************************)
(* create_archive: the changelog option of the metadata.txt it writes.     *)
(***************************************************************************)

\* value.replace("%%", "") of BasicInterpolation.before_set
RECURSIVE RemovePercentPairs(_)
RemovePercentPairs(s) ==
    IF Len(s) = 0 THEN s
    ELSE IF Len(s) >= 2 /\ s[1] = "%" /\ s[2] = "%"
    THEN RemovePercentPairs(SubSeq(s, 3, Len(s)))
    ELSE <<s[1]>> \o RemovePercentPairs(Tail(s))

\* The position after a match of %\(([^)]+)\)s at i, 0 when there is none
KeyEnd(s, i) ==
    IF /\ IsAt(s, i, "%")
       /\ IsAt(s, i + 1, "(")
       /\ \E j \in (i + 3)..Len(s) :
            /\ s[j] = ")"
            /\ \A k \in (i + 2)..(j - 1) : s[k] # ")"
            /\ IsAt(s, j + 1, "s")
    THEN Least({j \in (i + 3)..Len(s) : s[j] = ")"}) + 2
    ELSE 0

\* BasicInterpolation.before_set raises ValueError: a "%" is left once the
\* "%%" pairs and the %(name)s references are taken away
InvalidInterpolation(value) ==
    \E i \in DOMAIN RemovePercentPairs(value) :
        /\ RemovePercentPairs(value)[i] = "%"
        /\ \A i0 \in 1..i :
              KeyEnd(RemovePercentPairs(value), i0) <= i

\* create_archive that always asks for one changelog entry
create_archive_one_entry(source, changelog, max_entries) ==
    IF changelog.kind = "value" /\ Len(changelog.val) > 0
          /\ ~empty(changelog.val)
    THEN IF InvalidInterpolation(format_last_items(changelog.val, 1))
         THEN Raise("ValueError")
         ELSE Some([written |-> TRUE,
                    changelog |-> Some(format_last_items(changelog.val, 1))])
    ELSE Some([written |-> TRUE, changelog |-> None])

\* create_archive, lines 76-87, for a metadata.txt whose changelog option
\* is source: the metadata.txt of the archive as the ConfigParser holds it
\* when it is written, or the ValueError of config.set
create_archive(source, changelog, max_entries) ==
    IF changelog.kind = "value" /\ Len(changelog.val) > 0
          /\ ~empty(changelog.val)
    THEN IF InvalidInterpolation(format_last_items(changelog.val,
                                                   max_entries))
         THEN Raise("ValueError")
         ELSE Some([written |-> TRUE,
                    changelog |->
                        Some(format_last_items(changelog.val, max_entries))])
    ELSE Some([written |-> TRUE, changelog |-> None])

\* The intermediate git archive {plugin_slug}.tar of the root directory,
\* and the temporary directory made in the root directory
GitArchive == "plugin.tar"

TmpDir == "tmpdir"

\* The steps of create_archive that can fail for a reason outside of it,
\* in the order of the code: lines 28, 31, 33, 36, 37-38, 45 and 93
EarlyFailures == {"git.Repo", "relative_to", "TemporaryDirectory"}

FailurePoints ==
    EarlyFailures \cup
        {"_create_git_archive", "extractall", "shutil.move", "make_archive"}

\* The step at which create_archive fails, "none" when it returns: the
\* step that fails for an outside reason, or config.set when that one
\* comes first (lines 56-80 are before line 93)
failing_step(fail, set_raises) ==
    IF fail \in FailurePoints \ {"make_archive"} THEN fail
    ELSE IF set_raises THEN "config.set"
    ELSE fail

\* The exception each step fails with
step_exception(step) ==
    CASE step = "none" -> ""
      [] step = "git.Repo" -> "InvalidGitRepositoryError"
      [] step = "relative_to" -> "ValueError"
      [] step = "_create_git_archive" -> "GitCommandError"
      [] step = "extractall" -> "ReadError"
      [] step = "shutil.move" -> "FileNotFoundError"
      [] step = "config.set" -> "ValueError"
      [] OTHER -> "OSError"

\* _create_git_archive, lines 123-130: an existing git archive is removed,
\* then git writes the new one; a git command that fails has left a file
\* (partial) or none
create_git_archive(fls, step, partial) ==
    IF step = "_create_git_archive" /\ ~partial
    THEN fls \ {GitArchive}
    ELSE (fls \ {GitArchive}) \cup {GitArchive}

\* create_archive without its finally clause
unlink_git_archive_never(fls) == fls

\* The finally clause of create_archive, lines 39-41
unlink_git_archive(fls) == fls \ {GitArchive}

\* TemporaryDirectory.__exit__: the temporary directory is removed
cleanup(fls) == fls \ {TmpDir}

\* The files of the root directory after create_archive has failed at step
\* (returned, for "none"), fls being the files before
create_archive_files(fls, step, partial) ==
    IF step \in EarlyFailures THEN fls
    ELSE cleanup(unlink_git_archive(
             create_git_archive(fls \cup {TmpDir}, step, partial)))
         \cup (IF step = "none" THEN {"archive"} ELSE {})

\* The changelog files of the plugin packaged: up to two lines
PackageLines ==
    {"h100", "hbeta", "hv011", "unrel", "bullet", "bpct", "bpct2"}

PackageDocs == UNION {[1..n -> PackageLines] : n \in 0..2}

\* The changelog option of the metadata.txt of the plugin: none, or an old
\* text
SourceChangelogs == {None, Some(<<"o", "l", "d">>)}

InitPackage ==
    /\ changelog_exists \in BOOLEAN
    /\ doc \in (IF changelog_exists THEN PackageDocs ELSE {<< >>})
    /\ content = Flatten(doc)
    /\ source_changelog \in SourceChangelogs
    /\ parameters \in [loaded : {TRUE}, changelog_file : {"CHANGELOG.md"},
                       changelog_max_entries : 1..MaxCount,
                       rootdir : {Cwd}]
    /\ metadata = NoMetadata
    /\ versions = << >>
    /\ pc = "package"
    /\ op = "none"
    /\ tag = << >>
    /\ count = 0
    /\ ret = None
    /\ args = NoArgs
    /\ release_version = None
    /\ tag_ref = None
    /\ files \in {{}, {GitArchive}}
    /\ xml = ""
    /\ gh_calls = << >>
    /\ rpc_calls = 0
    /\ exc = ""
    /\ exit_status = 0 - 1
    /\ stdout = << >>
    /\ stderr = << >>
    /\ config = NoConfigFile
    /\ candidates = << >>
    /\ plugins_xml = NoXml
    /\ fs = << >>
    /\ call = NoCall
    /\ CHANGELOG_FILEPATH = Unset
    /\ changelog_path = Unset
    /\ plugin_md = << >>
    /\ project_md = << >>

\* What packaging leaves alone
unpacked ==
    << doc, content, tag, count, ret, args, changelog_exists, release_version,
       tag_ref, xml, gh_calls, rpc_calls, exit_status, stdout, stderr,
       config, parameters, plugins_xml, parservars, source_changelog,
       mdvars, cfgvars >>

\* The caller reads the changelog it will supply, as release does: a
\* ChangeLog when the file exists, None when it does not
ReadChangelog ==
    /\ pc = "package"
    /\ versions' = IF changelog_exists THEN parse(content) ELSE << >>
    /\ pc' = "create_archive_call"
    /\ UNCHANGED << unpacked, op, files, metadata, exc >>

\* create_archive(parameters, ..., changelog=changelog): op is the step at
\* which it failed, "none" when it returned
PackageCreate ==
    /\ pc = "create_archive_call"
    /\ \E fail \in FailurePoints \cup {"none"}, partial \in BOOLEAN :
         /\ op' = failing_step(
                     fail,
                     create_archive(
                         source_changelog,
                         IF changelog_exists THEN Some(versions) ELSE None,
                         parameters.changelog_max_entries).kind = "raise")
         /\ files' = create_archive_files(files, op', partial)
    /\ exc' = step_exception(op')
    /\ IF op' = "none"
       THEN /\ metadata' =
                 create_archive(source_changelog,
                                IF changelog_exists THEN Some(versions)
                                ELSE None,
                                parameters.changelog_max_entries).val
            /\ pc' = "packaged"
       ELSE /\ pc' = "package_raised"
            /\ UNCHANGED metadata
    /\ UNCHANGED << unpacked, versions >>

NextPackage == ReadChangelog \/ PackageCreate

SpecPackage == InitPackage /\ [][NextPackage]_vars

(***************************************************************************)
(* ProjectMetadata.update_plugin_metadata, as Parameters.metadata calls it *)
(***************************************************************************)

\* The fields of PluginMetadata looked at: three it shares with
\* ProjectMetadata (a str, a sequence and an Optional[HttpUrl]) and two of
\* its own (a str and a bool)
ProjectFields == {"author", "tags", "homepage"}

PluginFields == ProjectFields \cup {"name", "experimental"}

\* not v, for the value v of the field k
Falsy(k, v) ==
    IF k = "experimental" THEN ~v
    ELSE v.kind = "None" \/ Len(v.val) = 0

\* self.model_dump(exclude_defaults=True): the fields that are not None
model_dump_exclude_defaults(project) ==
    {k \in DOMAIN project : project[k] # None}

\* update_plugin_metadata writing the project values into md itself
update_plugin_metadata_in_place(project, md) ==
    IF model_dump_exclude_defaults(project) # {}
    THEN [ret |-> [k \in DOMAIN md |->
                     IF k \in model_dump_exclude_defaults(project)
                           /\ Falsy(k, md[k])
                     THEN project[k] ELSE md[k]],
          md  |-> [k \in DOMAIN md |->
                     IF k \in model_dump_exclude_defaults(project)
                           /\ Falsy(k, md[k])
                     THEN project[k] ELSE md[k]]]
    ELSE [ret |-> md, md |-> md]

\* update_plugin_metadata(self, md): what it returns, and md after the call
\* (model_copy makes a new object)
update_plugin_metadata(project, md) ==
    IF model_dump_exclude_defaults(project) # {}
    THEN [ret |-> [k \in DOMAIN md |->
                     IF k \in model_dump_exclude_defaults(project)
                           /\ Falsy(k, md[k])
                     THEN project[k] ELSE md[k]],
          md  |-> md]
    ELSE [ret |-> md, md |-> md]

\* The metadata.txt files read
PluginMetadatas ==
    [author       : {Some(<< >>), Some(<<"A">>)},
     tags         : {Some(<< >>), Some(<<"foo", "bar">>)},
     homepage     : {None, Some(<<"h">>)},
     name         : {Some(<<"n">>)},
     experimental : BOOLEAN]

\* The project tables of pyproject.toml read
ProjectMetadatas ==
    [author   : OptionValues(<<"P">>),
     tags     : OptionValues(<<"baz">>),
     homepage : {None, Some(<<"H">>)}]

InitMetadata ==
    /\ plugin_md \in PluginMetadatas
    /\ project_md \in ProjectMetadatas
    /\ pc = "metadata"
    /\ op = "none"
    /\ ret = None
    /\ doc = << >>
    /\ content = << >>
    /\ versions = << >>
    /\ tag = << >>
    /\ count = 0
    /\ args = NoArgs
    /\ changelog_exists = TRUE
    /\ release_version = None
    /\ tag_ref = None
    /\ files = {}
    /\ xml = ""
    /\ gh_calls = << >>
    /\ rpc_calls = 0
    /\ exc = ""
    /\ exit_status = 0 - 1
    /\ stdout = << >>
    /\ stderr = << >>
    /\ config = NoConfigFile
    /\ candidates = << >>
    /\ parameters = NotLoaded
    /\ plugins_xml = NoXml
    /\ fs = << >>
    /\ call = NoCall
    /\ CHANGELOG_FILEPATH = Unset
    /\ changelog_path = Unset
    /\ source_changelog = None
    /\ metadata = NoMetadata

\* What update_plugin_metadata leaves alone
unread ==
    << doc, content, versions, tag, count, relvars, parservars, pkgvars,
       project_md, cfgvars >>

\* Parameters.metadata: self._metadata.update_plugin_metadata(md)
Metadata ==
    /\ pc = "metadata"
    /\ ret' = Some(update_plugin_metadata(project_md, plugin_md).ret)
    /\ plugin_md' = update_plugin_metadata(project_md, plugin_md).md
    /\ op' = "update_plugin_metadata"
    /\ pc' = "updated"
    /\ UNCHANGED unread

\* The cached property is used; the metadata are as they were
UseMetadata ==
    /\ pc = "updated"
    /\ pc' = "used"
    /\ UNCHANGED << op, ret, plugin_md, unread >>

NextMetadata == Metadata \/ UseMetadata

SpecMetadata == InitMetadata /\ [][NextMetadata]_vars

(***************************************************************************)
(* find_config_file, read_config_from_file and load_parameters.            *)
(***************************************************************************)

\* The candidate files, in the order of find_config_file
ConfigNames ==
    <<"pyproject.toml", "qgis-plugin-package-ci.toml",
      ".qgis-plugin-package-ci.toml">>

\* A package-ci table that is not in the file: config.get("package-ci", {})
NoTable ==
    [present |-> FALSE, keys |-> {}, changelog_file |-> "", rootdir |-> ""]

\* The changelog_file each table gives, one name for each table of each
\* file: the table tool.package-ci (tool) and the table package-ci
TableChangelog(n, tool) ==
    CASE n = "pyproject.toml" /\ tool -> "CHANGELOG-pyproject-tool.md"
      [] n = "pyproject.toml" -> "CHANGELOG-pyproject.md"
      [] n = "qgis-plugin-package-ci.toml" /\ tool -> "CHANGELOG-qgis-tool.md"
      [] n = "qgis-plugin-package-ci.toml" -> "CHANGELOG-qgis.md"
      [] tool -> "CHANGELOG-dot-qgis-tool.md"
      [] OTHER -> "CHANGELOG-dot-qgis.md"

\* The package-ci tables of a file: the required keys and changelog_file,
\* with a rootdir key or without
Tables(changelog) ==
    [present : {TRUE},
     keys : {RequiredKeys \cup {"changelog_file"},
             RequiredKeys \cup {"changelog_file", "rootdir"}},
     changelog_file : {changelog},
     rootdir : {"/elsewhere"}]

\* A candidate that does not exist
NoFile == [exists |-> FALSE, tool |-> NoTable, top |-> NoTable]

\* What the candidate n can be: missing, or a TOML file with a table
\* tool.package-ci, a table package-ci, both or none
CandidateFiles(n) ==
    {NoFile} \cup
    [exists : {TRUE},
     tool   : {NoTable} \cup Tables(TableChangelog(n, TRUE)),
     top    : {NoTable} \cup Tables(TableChangelog(n, FALSE))]

\* find_config_file returning the last candidate that exists
find_config_file_last(dir) ==
    IF \E k \in DOMAIN ConfigNames : dir[ConfigNames[k]].exists
    THEN ConfigNames[CHOOSE k \in DOMAIN ConfigNames :
                        /\ dir[ConfigNames[k]].exists
                        /\ \A j \in DOMAIN ConfigNames :
                              dir[ConfigNames[j]].exists => j <= k]
    ELSE ""

\* find_config_file(rootdir): the first candidate that exists, "" for None
find_config_file(dir) ==
    IF \E k \in DOMAIN ConfigNames : dir[ConfigNames[k]].exists
    THEN ConfigNames[Least({k \in DOMAIN ConfigNames :
                               dir[ConfigNames[k]].exists})]
    ELSE ""

\* read_config_from_file(path): the table package-ci of the table tool when
\* the stem of the path is "pyproject", of the file otherwise
read_config_from_file(n, file) ==
    IF n = "pyproject.toml" THEN file.tool ELSE file.top

\* load_parameters, lines 228-229: the configuration read from the file
\* found
found_config(dir) ==
    IF find_config_file(dir) = "" THEN NoConfigFile
    ELSE [file |-> find_config_file(dir),
          keys |-> read_config_from_file(
                       find_config_file(dir),
                       dir[find_config_file(dir)]).keys,
          changelog_file |-> read_config_from_file(
                                 find_config_file(dir),
                                 dir[find_config_file(dir)]).changelog_file,
          changelog_max_entries |-> 0,
          rootdir |-> read_config_from_file(
                          find_config_file(dir),
                          dir[find_config_file(dir)]).rootdir]

InitConfig ==
    /\ candidates \in
         [{ConfigNames[k] : k \in DOMAIN ConfigNames} ->
             UNION {CandidateFiles(ConfigNames[k]) : k \in DOMAIN ConfigNames}]
    /\ \A k \in DOMAIN ConfigNames :
         candidates[ConfigNames[k]] \in CandidateFiles(ConfigNames[k])
    /\ config = NoConfigFile
    /\ parameters = NotLoaded
    /\ pc = "config"
    /\ exc = ""
    /\ op = "none"
    /\ ret = None
    /\ doc = << >>
    /\ content = << >>
    /\ versions = << >>
    /\ tag = << >>
    /\ count = 0
    /\ args = NoArgs
    /\ changelog_exists = TRUE
    /\ release_version = None
    /\ tag_ref = None
    /\ files = {}
    /\ xml = ""
    /\ gh_calls = << >>
    /\ rpc_calls = 0
    /\ exit_status = 0 - 1
    /\ stdout = << >>
    /\ stderr = << >>
    /\ plugins_xml = NoXml
    /\ fs = << >>
    /\ call = NoCall
    /\ CHANGELOG_FILEPATH = Unset
    /\ changelog_path = Unset
    /\ source_changelog = None
    /\ metadata = NoMetadata
    /\ plugin_md = << >>
    /\ project_md = << >>

\* What load_parameters leaves alone
unloaded ==
    << doc, content, versions, queryvars, args, changelog_exists,
       release_version, tag_ref, files, xml, gh_calls, rpc_calls,
       exit_status, stdout, stderr, plugins_xml, parservars, pkgvars,
       mdvars, cfgvars >>

\* load_parameters(): find the file, read its table, set rootdir, validate
LoadParameters ==
    /\ pc = "config"
    /\ config' = found_config(candidates)
    /\ IF load_parameters(config').kind = "raise"
       THEN /\ exc' = load_parameters(config').val
            /\ pc' = "load_raised"
            /\ UNCHANGED parameters
       ELSE /\ parameters' = load_parameters(config').val
            /\ pc' = "loaded"
            /\ UNCHANGED exc
    /\ UNCHANGED unloaded

\* The command goes on with the parameters, or ends with the exception
UseParameters ==
    /\ pc \in {"loaded", "load_raised"}
    /\ pc' = "config_done"
    /\ UNCHANGED << config, parameters, exc, unloaded >>

NextConfig == LoadParameters \/ UseParameters

SpecConfig == InitConfig /\ [][NextConfig]_vars

(***************************************************************************)
(* What the specification says of a document, line by line.                *)
(***************************************************************************)

\* The lines that are release headers of the grammar of the specification:
\* a level-2 heading, a three-component version (optionally bracketed,
\* optionally prefixed with "v"), " - " and a date.
WellFormedHeaders == {"h100", "h100b", "hv011", "hv123", "hbeta"}

\* The lines that are level-2 headings
Level2Headings == WellFormedHeaders \cup {"unrel", "h10", "hnodate"}

\* The date each well-formed header carries
HeaderDate(n) ==
    IF n \in {"h100", "hv011", "hv123"}
    THEN <<"2", "0", "2", "1", "-", "0", "1", "-", "0", "1">>
    ELSE IF n = "h100b"
    THEN <<"2", "0", "2", "0", "/", "1", "2", "/", "3", "1">>
    ELSE <<"2", "0", "2", "1", "/", "0", "2", "/", "0", "8">>

\* The indices of the well-formed headers of d, and the j-th of them
HeaderLines(d) == {k \in DOMAIN d : d[k] \in WellFormedHeaders}

NthHeader(d, j) ==
    CHOOSE k \in HeaderLines(d) :
        Cardinality({i \in HeaderLines(d) : i <= k}) = j

\* The text from the end of the header at line k up to the next level-2
\* heading or the end of the document
SectionBody(d, k) ==
    LET next == {i \in (k + 1)..Len(d) : d[i] \in Level2Headings}
    IN  <<"\n">> \o Flatten(SubSeq(d, k + 1,
                       IF next = {} THEN Len(d) ELSE Least(next) - 1))

\* The positions of s at which a rendered block starts, and their number
BlockStarts(s) ==
    {k \in 1..(Len(s) - Len(VersionLabel) + 1) :
        SubSeq(s, k, k + Len(VersionLabel) - 1) = VersionLabel}

Blocks(s) == Cardinality(BlockStarts(s))

Min(a, b) == IF a <= b THEN a ELSE b

Max(a, b) == IF a >= b THEN a ELSE b

AllDigits(s) == s # << >> /\ \A k \in DOMAIN s : s[k] \in Digit

(***************************************************************************)
(* C1..C3: ChangeLog.find                                                  *)
(***************************************************************************)

\* C1: for a tag other than "latest", find returns the first entry in
\* document order whose version string equals the tag exactly (the note
\* returned has that version), and nothing when no entry has that version
\* string: "1.0" does not find "1.0.0".
C1_FindExactFirst ==
    (op = "find" /\ tag # latest_tag) =>
        LET hits == {k \in DOMAIN versions : version(versions[k]) = tag}
        IN  IF hits = {} THEN ret = None
            ELSE /\ ret = Some(versions[Least(hits)])
                 /\ version(ret.val) = tag

\* C1 witness: two entries of version 1.0.0 that differ, and the first of
\* them found.
C1_Witness ==
    /\ op = "find"
    /\ tag = <<"1", ".", "0", ".", "0">>
    /\ Len(versions) >= 2
    /\ version(versions[1]) = tag
    /\ version(versions[2]) = tag
    /\ versions[1] # versions[2]
    /\ ret = Some(versions[1])

\* C2: on a non-empty ChangeLog, find("latest") returns the note that find
\* returns for the version string of the first entry.
C2_LatestIsFirst ==
    (op = "find" /\ tag = latest_tag /\ ~empty(versions)) =>
        /\ ret = find(versions, version(versions[1]))
        /\ ret.kind = "value"

\* C2 witness: "latest" asked of a ChangeLog of two different entries
C2_Witness ==
    /\ op = "find"
    /\ tag = latest_tag
    /\ Len(versions) >= 2
    /\ versions[1] # versions[2]
    /\ ret = Some(versions[1])

\* C3: find never raises; on an empty ChangeLog it returns nothing for
\* every tag, "latest" included, and on a non-empty one it returns nothing
\* for a tag that is no entry's version string.  The same holds of
\* ChangelogParser._version_note.
C3_FindNeverRaises ==
    (op \in {"find", "_version_note"}) =>
        /\ ret.kind # "raise"
        /\ empty(versions) => ret = None
        /\ (/\ tag # latest_tag
            /\ \A k \in DOMAIN versions : version(versions[k]) # tag)
               => ret = None

\* C3 witness: "latest" asked of the ChangeLog of a document that has
\* lines but no release header
C3_Witness ==
    /\ op = "find"
    /\ tag = latest_tag
    /\ doc # << >>
    /\ empty(versions)
    /\ ret = None

(***************************************************************************)
(* C4, C5: ChangeLog.format_last_items                                     *)
(***************************************************************************)

\* C4: format_last_items(count) never contains more than count rendered
\* blocks; for a positive count it contains the blocks of the first
\* min(count, n) entries, in document order; it is the empty string for an
\* empty ChangeLog.
C4_AtMostCountBlocks ==
    (op = "format_last_items") =>
        /\ Blocks(ret.val) <= Max(count, 0)
        /\ empty(versions) => ret.val = << >>
        /\ count > 0 =>
             /\ Blocks(ret.val) = Min(count, Len(versions))
             /\ ret.val = format_last_items(
                              SubSeq(versions, 1, Min(count, Len(versions))),
                              Len(versions) + 1)

\* C5: for a count of zero or less, format_last_items of a non-empty
\* ChangeLog emits no block.
C5_NothingForNonPositive ==
    (op = "format_last_items" /\ count <= 0 /\ ~empty(versions)) =>
        Blocks(ret.val) = 0

(***************************************************************************)
(* C6..C9: ChangeLog.parse                                                 *)
(***************************************************************************)

\* C6: parsing yields exactly one entry per well-formed release header, in
\* document order; a heading with no three-component version or no date
\* yields none, and a document with no well-formed header yields the empty
\* sequence.
C6_OneEntryPerHeader ==
    (pc # "init") =>
        /\ Len(versions) = Cardinality(HeaderLines(doc))
        /\ \A j \in DOMAIN versions :
             j <= Cardinality(HeaderLines(doc)) =>
                 versions[j][7] = HeaderDate(doc[NthHeader(doc, j)])

\* C7: a header with a "v" before its version yields an entry whatever the
\* major, as the same header without the "v" does.
C7_VPrefixAnyMajor ==
    (pc # "init" /\ \E k \in DOMAIN doc : doc[k] \in {"hv011", "hv123"}) =>
        LET plain == parse(FlattenUnprefixed(doc))
        IN  /\ Len(versions) = Len(plain)
            /\ \A j \in DOMAIN versions :
                 j <= Len(plain) =>
                     \A f \in 2..8 : versions[j][f] = plain[j][f]

\* C8: major, minor and patch of every entry are non-empty and made of
\* decimal digits only.
C8_NumericFields ==
    \A j \in DOMAIN versions :
        AllDigits(versions[j][1]) /\ AllDigits(versions[j][2])
                                  /\ AllDigits(versions[j][3])

\* C9: the body of an entry is the text from its date to the next level-2
\* heading or the end of the document; a level-3 sub-heading is part of it.
C9_BodyToNextLevel2 ==
    (/\ pc # "init"
     /\ \A k \in DOMAIN doc : doc[k] \in {"h100", "h100b", "hbeta", "bullet", "sub3"})
        =>
        /\ Len(versions) = Cardinality(HeaderLines(doc))
        /\ \A j \in DOMAIN versions :
             j <= Cardinality(HeaderLines(doc)) =>
                 versions[j][8] = SectionBody(doc, NthHeader(doc, j))


C11_NoChangelogFile ==
    (pc = "changelog_exit" /\ parameters.loaded /\ ~changelog_exists) =>
        /\ stderr = <<"No changelog">>
        /\ op = "none"
        /\ versions = << >>
        /\ ret = None
        /\ stdout = << >>
        /\ exit_status = 1

\* The changelog command has ended in a directory with a valid
\* configuration and no changelog file.
C11_Witness ==
    /\ pc = "changelog_exit"
    /\ parameters.loaded
    /\ config.file # ""
    /\ ~changelog_exists
    /\ exit_status = 1

\* C12: when the changelog file exists and find returns nothing for the
\* requested tag ("latest" on a changelog without entries included), the
\* changelog command ends with a status other than 0 and tells the user, on
\* the error stream, that the version was not found.
C12_UnresolvedTagFails ==
    (pc = "changelog_exit" /\ parameters.loaded /\ changelog_exists
        /\ op = "find" /\ ret = None) =>
        /\ exit_status # 0
        /\ stderr # << >>

\* C15: in a directory without a configuration file load_parameters does not
\* raise, and the changelog path is the default CHANGELOG.md.
C15_ConfigurationOptional ==
    (pc \in {"changelog_returned", "changelog_raised", "changelog_exit"}
        /\ config.file = "") =>
        /\ exc # "ValidationError"
        /\ parameters.loaded
        /\ parameters.changelog_file = "CHANGELOG.md"


\* C13: a release of "latest" whose changelog file is missing, or has no
\* entry, raises VersionNotFoundError with no archive created and no upload
\* made, and the command ends with status 1; a release of an explicit
\* version works on that version, whatever the first entry of the changelog.
C13_LatestNeedsChangelogEntry ==
    /\ (/\ parameters.loaded
        /\ args.release_version = latest_tag
        /\ pc \notin {"cli", "release"}
        /\ (~changelog_exists \/ Len(versions) = 0)) =>
           /\ exc = "VersionNotFoundError"
           /\ files = {}
           /\ ~plugins_xml.written
           /\ gh_calls = << >>
           /\ rpc_calls = 0
           /\ pc = "exit" => exit_status = 1
    /\ (/\ args.release_version # latest_tag
        /\ pc \notin {"cli", "release"}
        /\ release_version.kind = "value") =>
           release_version.val = args.release_version

\* A release of "latest" has ended on a changelog file without an entry.
C13_Witness ==
    /\ pc = "exit"
    /\ args.release_version = latest_tag
    /\ parameters.loaded
    /\ changelog_exists
    /\ doc = <<"unrel">>
    /\ exc = "VersionNotFoundError"
    /\ exit_status = 1

\* The archive of an explicit version was uploaded although the changelog
\* has a first entry of another version.
C13_WitnessExplicit ==
    /\ pc = "exit"
    /\ args.release_version = <<"1", ".", "2", ".", "3">>
    /\ Len(versions) > 0
    /\ Len(gh_calls) > 0

\* The tag reference a release is meant to use: the git tag given, or the
\* string form of the release version
ExpectedTagRef ==
    IF Truthy(args.git_tag) THEN args.git_tag.val ELSE release_version.val

\* C14: every call of upload_github_asset (release lookup and asset upload)
\* and the plugins.xml (release tag, and download URL on GitHub) use the git
\* tag when one is given, unchanged, and the string form of the release
\* version when none is.
C14_TagRef ==
    /\ \A i \in DOMAIN gh_calls : gh_calls[i].tag_ref = ExpectedTagRef
    /\ plugins_xml.written =>
         /\ plugins_xml.RELEASE_TAG = ExpectedTagRef
         /\ plugins_xml.DOWNLOAD_URL.github =>
                plugins_xml.DOWNLOAD_URL.tag = ExpectedTagRef

\* A release with a git tag has uploaded plugins.xml and the archive, the
\* download URL being the one on GitHub.
C14_Witness ==
    /\ Truthy(args.git_tag)
    /\ Len(gh_calls) = 2
    /\ plugins_xml.written
    /\ plugins_xml.DOWNLOAD_URL.github
    /\ plugins_xml.DOWNLOAD_URL.tag = args.git_tag.val

\* A release without a git tag has uploaded plugins.xml and the archive.
C14_WitnessNoTag ==
    /\ ~Truthy(args.git_tag)
    /\ Len(gh_calls) = 2
    /\ plugins_xml.written
    /\ plugins_xml.DOWNLOAD_URL.github
    /\ plugins_xml.DOWNLOAD_URL.tag = release_version.val


C16_WitnessFound ==
    /\ pc = "called"
    /\ op = "has_changelog"
    /\ ret = Some(<<"fixtures", "CHANGELOG-branch-X.md">>)

\* C17: after a call of has_changelog that found a changelog file, the
\* class attribute CHANGELOG_FILEPATH is the path of that file; after a call
\* that found none (a path that is not a folder included) it is None.
C17_ClassAttribute ==
    (pc = "called" /\ op = "has_changelog") =>
        IF ret.kind = "value" THEN CHANGELOG_FILEPATH = ret
        ELSE CHANGELOG_FILEPATH = None


\* The block of one entry as the specification words it: the body line is
\* left out altogether when the text is empty or None
ExpectedBlock(ver) ==
    VersionLabel \o version(ver) \o <<":", "\n">>
        \o (IF text(ver).kind = "value" /\ text(ver).val # << >>
            THEN text(ver).val \o <<"\n", "\n">>
            ELSE <<"\n">>)

\* The blocks of the entries k..n, in document order
RECURSIVE ExpectedBlocks(_, _, _)
ExpectedBlocks(vs, k, n) ==
    IF k > n THEN << >>
    ELSE ExpectedBlock(vs[k]) \o ExpectedBlocks(vs, k + 1, n)

\* C18: for a non-empty ChangeLog and a positive count, format_last_items is
\* one newline followed by the blocks of the first min(count, n) entries in
\* document order, a block being "Version {version}:\n{text}\n\n", and
\* "Version {version}:\n" followed by a single blank line when the text is
\* empty or None.
C18_BlockFormat ==
    (op = "format_last_items" /\ count > 0 /\ ~empty(versions)) =>
        ret.val = <<"\n">> \o ExpectedBlocks(versions, 1,
                                             Min(count, Len(versions)))


\* C19: the metadata.txt written into the archive has a changelog option
\* exactly when a ChangeLog with at least one entry was supplied, its value
\* being format_last_items(changelog_max_entries); without a changelog, or
\* with an empty one, a changelog option of the source metadata is removed.
C19_MetadataChangelog ==
    (pc = "packaged" /\ metadata.written) =>
        /\ metadata.changelog.kind = "value"
               <=> (changelog_exists /\ Len(versions) > 0)
        /\ metadata.changelog.kind = "value" =>
               metadata.changelog.val =
                   format_last_items(versions,
                                     parameters.changelog_max_entries)
        /\ ~(changelog_exists /\ Len(versions) > 0) =>
               metadata.changelog = None

\* An archive was made with a changelog of two entries, both of them in the
\* metadata, in place of the old changelog option.
C19_Witness ==
    /\ pc = "packaged"
    /\ metadata.written
    /\ source_changelog # None
    /\ Len(versions) = 2
    /\ parameters.changelog_max_entries >= 2
    /\ metadata.changelog.kind = "value"

\* An archive was made without a changelog from a metadata.txt that had a
\* changelog option.
C19_WitnessRemoved ==
    /\ pc = "packaged"
    /\ metadata.written
    /\ source_changelog # None
    /\ ~changelog_exists
    /\ metadata.changelog = None


\* What the result of update_plugin_metadata is meant to be for the field k
\* of the plugin metadata md: md's own value when it is defined, the value
\* of the project when md's is undefined and the project has a value other
\* than the default for the field, md's value in every other case
ExpectedField(project, md, k) ==
    IF ~Falsy(k, md[k]) THEN md[k]
    ELSE IF k \in ProjectFields /\ project[k] # None THEN project[k]
    ELSE md[k]

\* C20: update_plugin_metadata gives every field of the plugin metadata its
\* expected value (own value when defined, project value when undefined and
\* the project defines one, unchanged otherwise), and does not change the
\* metadata object it was given.
C20_FillsUndefinedOnly ==
    [][(pc = "metadata" /\ pc' = "updated") =>
          /\ DOMAIN ret'.val = PluginFields
          /\ \A k \in PluginFields :
                ret'.val[k] = ExpectedField(project_md, plugin_md, k)
          /\ plugin_md' = plugin_md]_vars

\* An undefined author was taken from the project, a defined homepage kept
\* although the project has one, and the tags left undefined.
C20_Witness ==
    /\ pc = "updated"
    /\ plugin_md.author = Some(<< >>)
    /\ project_md.author = Some(<<"P">>)
    /\ ret.val.author = Some(<<"P">>)
    /\ plugin_md.homepage = Some(<<"h">>)
    /\ project_md.homepage = Some(<<"H">>)
    /\ ret.val.homepage = Some(<<"h">>)
    /\ plugin_md.tags = Some(<< >>)
    /\ project_md.tags = None
    /\ ret.val.tags = Some(<< >>)

(***************************************************************************)
(* C21: headings that are not level-2 headings at the start of a line      *)
(***************************************************************************)

\* The versions that only the level-3 heading "### 3.0.0 - 2021-01-01" and
\* the line "see ## 4.0.0 - 2021-01-01" of the catalogue carry
NotLevel2Versions ==
    {<<"3", ".", "0", ".", "0">>, <<"4", ".", "0", ".", "0">>}

\* C21: a level-3 heading that carries a version and a date, and a "##" in
\* the middle of a line followed by a version and a date, produce no entry:
\* no entry of the ChangeLog has the version of such a line.
C21_OnlyLevel2LineStart ==
    (pc # "init") =>
        \A j \in DOMAIN versions : version(versions[j]) \notin NotLevel2Versions

(***************************************************************************)
(* C22: the order of the steps of a release                                *)
(***************************************************************************)

\* The calls of upload_github_asset that push plugins.xml, and those that
\* push the archive
XmlUploads == {i \in DOMAIN gh_calls : gh_calls[i].asset_name = "plugins.xml"}

ArchiveUploads == {i \in DOMAIN gh_calls : gh_calls[i].asset_name = ""}

\* What has been done so far was done in the order version, archive,
\* plugins.xml, upload of plugins.xml, upload of the archive, registry
StepsInOrder ==
    /\ files # {} => (release_version.kind = "value" /\ "archive" \in files)
    /\ plugins_xml.written =>
         ("plugins.xml" \in files /\ create_plugin_repository)
    /\ gh_calls # << >> => "archive" \in files
    /\ XmlUploads \subseteq {1}
    /\ XmlUploads # {} => plugins_xml.written
    /\ ArchiveUploads \subseteq {Len(gh_calls)}
    /\ (ArchiveUploads # {} /\ create_plugin_repository) =>
         (Len(gh_calls) = 2 /\ XmlUploads = {1})
    /\ \A i \in DOMAIN gh_calls :
         gh_calls[i].outcome # "ok" =>
             (i = Len(gh_calls) /\ exc # "" /\ rpc_calls = 0)
    /\ rpc_calls > 0 =>
         /\ "archive" \in files
         /\ \A i \in DOMAIN gh_calls : gh_calls[i].outcome = "ok"
         /\ IsNotNone(args.github_token) => ArchiveUploads # {}
    /\ exc # "" => pc \in {"raised", "exit"}

\* Once a step has failed nothing more is created or uploaded
FailureStops ==
    exc # "" =>
        UNCHANGED << release_version, tag_ref, files, xml, plugins_xml,
                     gh_calls, rpc_calls, exc >>

\* C22: in every run of the release command the version is resolved first,
\* then the archive is created, then plugins.xml is created and uploaded if
\* asked for, then the archive is uploaded to GitHub, and the registry is
\* reached only after every GitHub upload succeeded; no upload is made
\* before the archive exists, and a failure stops every later step.
C22_StepOrder == [](StepsInOrder) /\ [][FailureStops]_vars

\* A release has uploaded plugins.xml, then the archive, then reached the
\* registry.
C22_Witness ==
    /\ pc = "exit"
    /\ Len(gh_calls) = 2
    /\ XmlUploads = {1}
    /\ ArchiveUploads = {2}
    /\ rpc_calls = 1
    /\ exit_status = 0

\* The upload of plugins.xml failed: the archive exists, and neither the
\* archive upload nor the registry upload was made.
C22_WitnessFailure ==
    /\ pc = "exit"
    /\ Len(gh_calls) = 1
    /\ XmlUploads = {1}
    /\ gh_calls[1].outcome = "get_release"
    /\ has_osgeo_credentials(args.osgeo_username, args.osgeo_password)
    /\ "archive" \in files
    /\ rpc_calls = 0
    /\ exit_status = 1

(***************************************************************************)
(* C23: the path create_plugin_repository_xml returns                      *)
(***************************************************************************)

\* C23: the path create_plugin_repository_xml returns is the file it wrote,
\* plugins.xml of the destination directory, and that file is what release
\* uploads as the asset "plugins.xml".
C23_ReturnsWrittenXml ==
    /\ plugins_xml.written => (xml = "plugins.xml" /\ xml \in files)
    /\ \A i \in DOMAIN gh_calls :
         gh_calls[i].asset_name = "plugins.xml" =>
             gh_calls[i].asset_path = "plugins.xml"

(***************************************************************************)
(* C24: failures to resolve or validate the release version                *)
(***************************************************************************)

\* C24: when the release version cannot be validated or resolved (the
\* command has failed with its parameters loaded and before the archive),
\* the exception is VersionNotFoundError or PluginPackageError, never
\* another one, and the exit status is 1: for a RELEASE-VERSION that is not
\* SemVer, and for "latest" when the version of the first changelog entry,
\* such as "v0.1.1", is not SemVer.
C24_VersionFailures ==
    (pc \in {"raised", "exit"} /\ parameters.loaded /\ files = {}) =>
        /\ exc \in {"VersionNotFoundError", "PluginPackageError"}
        /\ pc = "exit" => exit_status = 1

(***************************************************************************)
(* C25: failures of the GitHub API and of the registry                     *)
(***************************************************************************)

\* C25: a failure the GitHub API reports to upload_github_asset (repository
\* lookup, release lookup, asset upload), and a protocol error or fault of
\* the registry, leaves as PluginPackageError, and the command ends with
\* the message "ERROR:" on the error stream and status 1, not with an
\* exception that nothing handles.
C25_UploadFailuresHandled ==
    /\ \A i \in DOMAIN gh_calls :
         gh_calls[i].outcome # "ok" =>
             /\ exc = "PluginPackageError"
             /\ pc = "exit" => (exit_status = 1 /\ stderr = <<"ERROR:">>)
    /\ (rpc_calls > 0 /\ exc \notin {"", "OSError"}) =>
         /\ exc = "PluginPackageError"
         /\ pc = "exit" => (exit_status = 1 /\ stderr = <<"ERROR:">>)

(***************************************************************************)
(* C26: uploads are gated by credentials                                   *)
(***************************************************************************)

\* No asset goes to GitHub without a token, plugins.xml goes there only
\* when the plugin repository was asked for, upload_plugin is called only
\* with a user name and a password, and the package command uploads nothing
GatedByCredentials ==
    /\ gh_calls # << >> => IsNotNone(args.github_token)
    /\ XmlUploads # {} => create_plugin_repository
    /\ (pc = "upload_plugin" \/ rpc_calls > 0) =>
         (Truthy(args.osgeo_username) /\ Truthy(args.osgeo_password))
    /\ args.command = "package" =>
         (gh_calls = << >> /\ rpc_calls = 0 /\ pc # "upload_plugin")

\* Once release has returned and the archive is reported, the release
\* command calls upload_plugin exactly when it has both a user name and a
\* password
RegistryIffCredentials ==
    (pc = "echo" /\ pc' # "raised" /\ args.command = "release") =>
        (pc' = "upload_plugin"
            <=> (Truthy(args.osgeo_username) /\ Truthy(args.osgeo_password)))

\* C26: in every run no GitHub asset is uploaded unless a GitHub token is
\* given, plugins.xml is uploaded only if the plugin repository was asked
\* for as well (--create-plugin-repo or --plugin-repo-url), the upload to
\* the plugin registry is attempted if and only if both an OSGeo user name
\* and an OSGeo password are given, and the package command never uploads.
C26_GatedByCredentials ==
    [](GatedByCredentials) /\ [][RegistryIffCredentials]_vars

\* A release without a token but with both credentials has reached the
\* registry and uploaded nothing to GitHub, although the plugin repository
\* was asked for.
C26_Witness ==
    /\ pc = "exit"
    /\ args.command = "release"
    /\ args.github_token = None
    /\ create_plugin_repository
    /\ plugins_xml.written
    /\ gh_calls = << >>
    /\ rpc_calls = 1
    /\ exit_status = 0

\* A package command with --plugin-repo-url has ended with the archive and
\* plugins.xml created and nothing uploaded.
C26_WitnessPackage ==
    /\ pc = "exit"
    /\ args.command = "package"
    /\ Truthy(args.repository_url)
    /\ files = {"archive", "plugins.xml"}
    /\ gh_calls = << >>
    /\ rpc_calls = 0
    /\ exit_status = 0

(***************************************************************************)
(* C27: the intermediate files of create_archive                           *)
(***************************************************************************)

\* C27 as stated: after create_archive has returned or raised, on every
\* path, neither the intermediate git archive of the root directory nor the
\* temporary directory exists.
C27_IntermediateFilesRemoved ==
    (pc \in {"packaged", "package_raised"}) =>
        (GitArchive \notin files /\ TmpDir \notin files)

\* C27, amended: after create_archive has returned or raised, the temporary
\* directory does not exist, and the git archive does not exist unless it
\* was there before the call and the call failed before its with block
\* (git.Repo, relative_to or TemporaryDirectory); a call that gets to
\* _create_git_archive leaves no git archive, stale or new.
C27_RemovedOnceStarted ==
    [][(pc = "create_archive_call") =>
          /\ TmpDir \notin files'
          /\ GitArchive \in files' =>
                (op' \in EarlyFailures /\ GitArchive \in files)
          /\ op' \notin EarlyFailures => GitArchive \notin files']_vars

\* create_archive failed while it extracted the git archive, and neither
\* the git archive nor the temporary directory is left.
C27_Witness ==
    /\ pc = "package_raised"
    /\ op = "extractall"
    /\ exc = "ReadError"
    /\ files = {}

\* create_archive returned, and the archive is the only file it left.
C27_WitnessReturned ==
    /\ pc = "packaged"
    /\ op = "none"
    /\ files = {"archive"}

(***************************************************************************)
(* C28: ChangeLog and ChangelogParser                                      *)
(***************************************************************************)

\* The changelog path of a ChangelogParser whose changelog file exists
FoundChangelog == Some(<<".", "CHANGELOG.md">>)

ExpectedFile ==
    IF candidates["pyproject.toml"].exists THEN "pyproject.toml"
    ELSE IF candidates["qgis-plugin-package-ci.toml"].exists
    THEN "qgis-plugin-package-ci.toml"
    ELSE IF candidates[".qgis-plugin-package-ci.toml"].exists
    THEN ".qgis-plugin-package-ci.toml"
    ELSE ""

\* The table of that file the configuration is meant to be
ExpectedTable ==
    IF ExpectedFile = "pyproject.toml" THEN candidates[ExpectedFile].tool
    ELSE candidates[ExpectedFile].top

\* C29: the configuration is read from the first candidate that exists, in
\* the order pyproject.toml, qgis-plugin-package-ci.toml,
\* .qgis-plugin-package-ci.toml, from its table tool.package-ci for
\* pyproject.toml and package-ci otherwise; when that file has no such
\* table no other candidate is read (the configuration is empty and the
\* validation fails); and the rootdir of the parameters is the one
\* load_parameters was given, whatever rootdir the file has.
C29_FirstConfigFile ==
    (pc \in {"loaded", "load_raised"}) =>
        /\ config.file = ExpectedFile
        /\ ExpectedFile # "" =>
             IF ExpectedTable.present
             THEN /\ pc = "loaded"
                  /\ config.keys = ExpectedTable.keys
                  /\ parameters.changelog_file = ExpectedTable.changelog_file
             ELSE /\ pc = "load_raised"
                  /\ config.keys = {}
                  /\ exc = "ValidationError"
                  /\ ~parameters.loaded
        /\ parameters.loaded => parameters.rootdir = Cwd

\* pyproject.toml has a table package-ci but no table tool.package-ci, the
\* second candidate has a table package-ci, and the configuration is empty.
C29_Witness ==
    /\ pc = "load_raised"
    /\ candidates["pyproject.toml"].exists
    /\ candidates["pyproject.toml"].top.present
    /\ ~candidates["pyproject.toml"].tool.present
    /\ candidates["qgis-plugin-package-ci.toml"].top.present
    /\ config.file = "pyproject.toml"
    /\ config.keys = {}

\* Without pyproject.toml the table package-ci of the second candidate was
\* read, the third being left alone, and its rootdir was replaced.
C29_WitnessRootdir ==
    /\ pc = "loaded"
    /\ ~candidates["pyproject.toml"].exists
    /\ candidates[".qgis-plugin-package-ci.toml"].top.present
    /\ config.file = "qgis-plugin-package-ci.toml"
    /\ "rootdir" \in config.keys
    /\ config.rootdir = "/elsewhere"
    /\ parameters.rootdir = Cwd
    /\ parameters.changelog_file = "CHANGELOG-qgis.md"

====
